---- MODULE Spec2Model ----
(***************************************************************************)
(* The in-memory TODO store of main.py: the dict todos_db, the counter     *)
(* next_id and the request handlers that read and write them.              *)
(*                                                                         *)
(* Spec      the handlers run one after another (each handler is atomic).  *)
(* SpecConc  create_todo handlers run on several threads and interleave    *)
(*           between the statements of get_next_id and create_todo.        *)
(***************************************************************************)
EXTENDS Integers, Sequences, FiniteSets, TLC

(* ------------------------------ bounds -------------------------------- *)
\* create_todo is called at most MaxId times, so the ids issued are 1..MaxId.
MaxId == 2
\* read_todos is called with skip and limit in 0..MaxPage.
MaxPage == 2
\* Threads 1..MaxThreads handle requests concurrently in SpecConc.
MaxThreads == 2
\* SpecStats starts from a store after MaxStored creates and any deletes.
MaxStored == 4

Titles == {"a", "b"}
Descriptions == {"x"}
Ids == 1..MaxId
Threads == 1..MaxThreads

(* --------------------------- Python values ---------------------------- *)
\* A Python value that may be None is a sequence of length at most one:
\* None is the empty sequence, any other value v is <<v>>.
None == <<>>
Some(v) == <<v>>

HTTP_200_OK == 200
HTTP_201_CREATED == 201
HTTP_204_NO_CONTENT == 204
HTTP_404_NOT_FOUND == 404

(* ------------------- dict[int, dict], insertion-ordered --------------- *)
\* A dict is the sequence of its entries [key, val] in insertion order.
DictKeys(d) == {d[i].key : i \in 1..Len(d)}
DictHas(d, k) == \E i \in 1..Len(d) : d[i].key = k
DictIndex(d, k) == CHOOSE i \in 1..Len(d) : d[i].key = k
DictGet(d, k) == d[DictIndex(d, k)].val
\* d[k] = v: an existing key keeps its position, a new key goes last.
DictSet(d, k, v) ==
    IF DictHas(d, k)
    THEN [i \in 1..Len(d) |-> IF d[i].key = k THEN [key |-> k, val |-> v] ELSE d[i]]
    ELSE Append(d, [key |-> k, val |-> v])
\* del d[k]
DictDel(d, k) == SelectSeq(d, LAMBDA e : e.key # k)
\* list(d.values())
DictValues(d) == [i \in 1..Len(d) |-> d[i].val]

(* ---------------------------- list slicing ---------------------------- *)
\* Python clamps a slice index to 0..n, counting a negative one from the end.
AdjustIndex(i, n) ==
    IF i < 0 THEN (IF i + n < 0 THEN 0 ELSE i + n)
    ELSE IF i > n THEN n ELSE i
\* s[start:stop]
Slice(s, start, stop) ==
    LET a == AdjustIndex(start, Len(s))
        b == AdjustIndex(stop, Len(s))
    IN  IF a < b THEN SubSeq(s, a + 1, b) ELSE <<>>

(* --------------------------- float arithmetic ------------------------- *)
\* A natural number of any size is the sequence of its binary digits, least
\* significant first, without leading zeros (0 is the empty sequence).
RECURSIVE BitsOf(_)
BitsOf(n) == IF n = 0 THEN <<>> ELSE <<n % 2>> \o BitsOf(n \div 2)

\* Digits are handled ChunkBits at a time.
ChunkBits == 8

\* The k lowest binary digits of n, least significant first.
Digits(n, k) == [i \in 1..k |-> (n \div 2^(i - 1)) % 2]

RECURSIVE ValueOf(_)
\* The natural number a short digit sequence stands for.
ValueOf(a) == IF a = <<>> THEN 0 ELSE Head(a) + 2 * ValueOf(Tail(a))

RECURSIVE MulCarry(_, _, _)
MulCarry(a, k, carry) ==
    IF a = <<>> THEN BitsOf(carry)
    ELSE LET n == IF Len(a) < ChunkBits THEN Len(a) ELSE ChunkBits
             v == ValueOf(SubSeq(a, 1, n)) * k + carry
         IN  Digits(v % 2^n, n) \o MulCarry(SubSeq(a, n + 1, Len(a)), k, v \div 2^n)
\* a * k for a small natural k
MulSmall(a, k) == IF k = 0 THEN <<>> ELSE MulCarry(a, k, 0)

\* a * 2^n
ShiftLeft(a, n) == IF a = <<>> THEN <<>> ELSE [i \in 1..n |-> 0] \o a

\* a + 1
Inc(a) ==
    LET zeros == {i \in 1..Len(a) : a[i] = 0}
    IN  IF zeros = {} THEN [i \in 1..Len(a) |-> 0] \o <<1>>
        ELSE LET j == CHOOSE i \in zeros : \A z \in zeros : i <= z
             IN  [i \in 1..Len(a) |-> IF i < j THEN 0 ELSE IF i = j THEN 1 ELSE a[i]]

\* A float is m * 2^e with m a natural of at most MantissaBits digits; type
\* tells a Python int from a Python float.
MantissaBits == 53
Float(type, m, e) == [type |-> type, m |-> m, e |-> e]

\* p * 2^e (and a non-zero rest below it when sticky) rounded to the nearest
\* float, ties to the even mantissa.
RoundNearestEven(p, sticky, e) ==
    LET k == Len(p) - MantissaBits
    IN  IF k <= 0 THEN Float("float", p, IF p = <<>> THEN 0 ELSE e)
        ELSE LET q    == SubSeq(p, k + 1, Len(p))
                 rest == sticky \/ \E i \in 1..(k - 1) : p[i] = 1
                 up   == p[k] = 1 /\ (rest \/ q[1] = 1)
             IN  Float("float", IF up THEN Inc(q) ELSE q, e + k)

\* The first n binary digits after the point of r / d, for r < d, most
\* significant last in the result's first component; the second component
\* is the remainder left.
RECURSIVE Expand(_, _, _, _)
Expand(r, d, n, acc) ==
    IF n = 0 THEN [bits |-> acc, rem |-> r]
    ELSE LET k == IF n < ChunkBits THEN n ELSE ChunkBits
             p == r * 2^k
         IN  Expand(p % d, d, n - k, Digits(p \div d, k) \o acc)

RECURSIVE Normalize(_, _, _)
\* c / d = (c' / d') * 2^e with 1 <= c' / d' < 2
Normalize(c, d, e) ==
    IF c < d THEN Normalize(2 * c, d, e - 1)
    ELSE IF c >= 2 * d THEN Normalize(c, 2 * d, e + 1)
    ELSE [c |-> c, d |-> d, e |-> e]

\* c / d for ints c >= 0 and d > 0: the float nearest to the quotient
int_truediv(c, d) ==
    IF c = 0 THEN Float("float", <<>>, 0)
    ELSE LET n == Normalize(c, d, 0)
             x == Expand(n.c - n.d, n.d, MantissaBits, <<1>>)
         IN  RoundNearestEven(x.bits, x.rem # 0, n.e - MantissaBits)

\* x * k for a float x and an int k >= 0: the float nearest to the product
float_mul_int(x, k) == RoundNearestEven(MulSmall(x.m, k), FALSE, x.e)

\* completion_percentage without the factor 100.
completion_percentage_ratio(completed, total) ==
    IF total > 0 THEN int_truediv(completed, total)
    ELSE Float("int", <<>>, 0)

\* (completed / total * 100) if total > 0 else 0
completion_percentage(completed, total) ==
    IF total > 0 THEN float_mul_int(int_truediv(completed, total), 100)
    ELSE Float("int", <<>>, 0)

(* ------------------------------ models -------------------------------- *)
\* A JSON request body is a function from the fields it carries to values.
WithField(b, f, v) == [x \in DOMAIN b \cup {f} |-> IF x = f THEN v ELSE b[x]]
Field(b, f, default) == IF f \in DOMAIN b THEN b[f] ELSE default

\* TodoCreate whose completed defaults to None, as TodoUpdate's does.
TodoCreate_completed_none(body) ==
    [title       |-> body["title"],
     description |-> Field(body, "description", None),
     completed   |-> Field(body, "completed", None)]

\* TodoCreate(**body): title is required, the others take their defaults.
TodoCreate(body) ==
    [title       |-> body["title"],
     description |-> Field(body, "description", None),
     completed   |-> Field(body, "completed", Some(FALSE))]

\* TodoUpdate(**body): every field defaults to None.
TodoUpdate(body) ==
    [title       |-> Field(body, "title", None),
     description |-> Field(body, "description", None),
     completed   |-> Field(body, "completed", None)]

\* The request bodies the validation layer lets through to create_todo.
CreateBodies ==
    LET T == {[f \in {"title"} |-> Some(t)] : t \in Titles}
        D == T \cup {WithField(b, "description", v) :
                        b \in T, v \in {None} \cup {Some(x) : x \in Descriptions}}
    IN  D \cup {WithField(b, "completed", Some(c)) : b \in D, c \in BOOLEAN}

\* The request bodies the validation layer lets through to update_todo.
UpdateBodies ==
    LET E == {[f \in {} |-> None]}
        T == E \cup {WithField(b, "title", v) :
                        b \in E, v \in {None} \cup {Some(t) : t \in Titles}}
        D == T \cup {WithField(b, "description", v) :
                        b \in T, v \in {None} \cup {Some(x) : x \in Descriptions}}
    IN  D \cup {WithField(b, "completed", v) :
                        b \in D, v \in {None, Some(TRUE), Some(FALSE)}}

\* The models the handlers receive.
TodoCreates == {TodoCreate(body) : body \in CreateBodies}
\* SpecConc: the concurrent requests carry a title only.
TitleOnlyCreates == {TodoCreate([f \in {"title"} |-> Some(t)]) : t \in Titles}
TodoUpdates == {TodoUpdate(body) : body \in UpdateBodies}

(* ------------------------------- state -------------------------------- *)
VARIABLES
    todos_db,      \* the dict todos_db
    next_id,       \* the counter next_id
    resp,          \* the last request handled and its response
    created_ids,   \* the ids returned by create_todo, in order of return
    clock,         \* the time datetime.now() returns next
    th             \* SpecConc: each thread's position and local variables

vars == <<todos_db, next_id, resp, created_ids, clock, th>>

Response(op, req, status_code, detail, body) ==
    [op |-> op, req |-> req, status |-> status_code, detail |-> detail, body |-> body]

\* HTTPException(status_code=404, detail=f"TODO with id {todo_id} not found")
NotFound(op, req, todo_id) ==
    Response(op, req, HTTP_404_NOT_FOUND, <<"TODO with id", todo_id, "not found">>, <<>>)

Idle == [pc |-> "idle", todo |-> None, current_id |-> 0, tmp |-> 0, ret |-> None]

Init ==
    /\ todos_db = <<>>
    /\ next_id = 1
    /\ resp = Response("start", <<>>, 0, None, <<>>)
    /\ created_ids = <<>>
    /\ clock = 1
    /\ th = [t \in Threads |-> Idle]

(* ------------------------------ handlers ------------------------------ *)
\* get_next_id without its increment.
get_next_id_no_increment(n) == [current_id |-> n, next_id |-> n]

\* get_next_id() on counter n: the id returned and the counter left behind.
get_next_id(n) == [current_id |-> n, next_id |-> n + 1]

\* todo_data that takes its id from the counter after the increment.
todo_data_id_after_increment(todo_id, todo, now) ==
    [id          |-> todo_id + 1,
     title       |-> todo.title,
     description |-> todo.description,
     completed   |-> todo.completed,
     created_at  |-> now]

\* The dict create_todo builds for the request todo at time now.
todo_data(todo_id, todo, now) ==
    [id          |-> todo_id,
     title       |-> todo.title,
     description |-> todo.description,
     completed   |-> todo.completed,
     created_at  |-> now]

\* datetime.now(): the clock has moved on by the next time it is read.
datetime_now(c) == [now |-> c, clock |-> c + 1]

create_todo(todo) ==
    LET g    == get_next_id(next_id)
        t    == datetime_now(clock)
        data == todo_data(g.current_id, todo, t.now)
    IN  /\ Len(created_ids) < MaxId
        /\ clock' = t.clock
        /\ next_id' = g.next_id
        /\ todos_db' = DictSet(todos_db, g.current_id, data)
        /\ created_ids' = Append(created_ids, data.id)
        /\ resp' = Response("create_todo", [todo |-> todo], HTTP_201_CREATED, None, <<data>>)
        /\ UNCHANGED th

\* read_todos that cuts the page before it filters.
read_todos_page_first(skip, limit, completed) ==
    LET page     == Slice(DictValues(todos_db), skip, skip + limit)
        filtered == IF completed # None
                    THEN SelectSeq(page, LAMBDA todo : todo.completed = completed)
                    ELSE page
    IN  /\ resp' = Response("read_todos",
                            [skip |-> skip, limit |-> limit, completed |-> completed],
                            HTTP_200_OK, None, filtered)
        /\ UNCHANGED <<todos_db, next_id, created_ids, clock, th>>

\* read_todos that takes a negative skip or limit as 0.
read_todos_clamp(skip, limit, completed) ==
    LET all      == DictValues(todos_db)
        filtered == IF completed # None
                    THEN SelectSeq(all, LAMBDA todo : todo.completed = completed)
                    ELSE all
        from     == IF skip < 0 THEN 0 ELSE skip
        count    == IF limit < 0 THEN 0 ELSE limit
    IN  /\ resp' = Response("read_todos",
                            [skip |-> skip, limit |-> limit, completed |-> completed],
                            HTTP_200_OK, None, Slice(filtered, from, from + count))
        /\ UNCHANGED <<todos_db, next_id, created_ids, clock, th>>

read_todos(skip, limit, completed) ==
    LET all      == DictValues(todos_db)
        filtered == IF completed # None
                    THEN SelectSeq(all, LAMBDA todo : todo.completed = completed)
                    ELSE all
    IN  /\ resp' = Response("read_todos",
                            [skip |-> skip, limit |-> limit, completed |-> completed],
                            HTTP_200_OK, None, Slice(filtered, skip, skip + limit))
        /\ UNCHANGED <<todos_db, next_id, created_ids, clock, th>>

\* read_todo that takes the record out of the dict (todos_db.pop).
read_todo_pop(todo_id) ==
    /\ resp' = IF ~DictHas(todos_db, todo_id)
               THEN NotFound("read_todo", [todo_id |-> todo_id], todo_id)
               ELSE Response("read_todo", [todo_id |-> todo_id], HTTP_200_OK, None,
                             <<DictGet(todos_db, todo_id)>>)
    /\ todos_db' = DictDel(todos_db, todo_id)
    /\ UNCHANGED <<next_id, created_ids, clock, th>>

read_todo(todo_id) ==
    /\ resp' = IF ~DictHas(todos_db, todo_id)
               THEN NotFound("read_todo", [todo_id |-> todo_id], todo_id)
               ELSE Response("read_todo", [todo_id |-> todo_id], HTTP_200_OK, None,
                             <<DictGet(todos_db, todo_id)>>)
    /\ UNCHANGED <<todos_db, next_id, created_ids, clock, th>>

\* update_todo that replaces all three fields, the omitted ones by None.
apply_update_replace(existing_todo, todo_update) ==
    [existing_todo EXCEPT
        !.title       = IF todo_update.title # None THEN todo_update.title ELSE @,
        !.description = todo_update.description,
        !.completed   = IF todo_update.completed # None THEN todo_update.completed ELSE @]

\* update_todo that stamps the record with the time of the update.
apply_update_restamp(existing_todo, todo_update) ==
    [existing_todo EXCEPT
        !.title       = IF todo_update.title # None THEN todo_update.title ELSE @,
        !.description = IF todo_update.description # None THEN todo_update.description ELSE @,
        !.completed   = IF todo_update.completed # None THEN todo_update.completed ELSE @,
        !.created_at  = clock]

\* update_todo that assigns the title whether or not the request has one.
apply_update_title_always(existing_todo, todo_update) ==
    [existing_todo EXCEPT
        !.title       = todo_update.title,
        !.description = IF todo_update.description # None THEN todo_update.description ELSE @,
        !.completed   = IF todo_update.completed # None THEN todo_update.completed ELSE @]

\* The record update_todo leaves in place of existing_todo.
apply_update(existing_todo, todo_update) ==
    [existing_todo EXCEPT
        !.title       = IF todo_update.title # None THEN todo_update.title ELSE @,
        !.description = IF todo_update.description # None THEN todo_update.description ELSE @,
        !.completed   = IF todo_update.completed # None THEN todo_update.completed ELSE @]

\* update_todo that pops the record and stores it again under its key.
update_todo_reinsert(todo_id, todo_update) ==
    LET req == [todo_id |-> todo_id, todo_update |-> todo_update]
    IN  IF ~DictHas(todos_db, todo_id)
        THEN /\ resp' = NotFound("update_todo", req, todo_id)
             /\ UNCHANGED <<todos_db, next_id, created_ids, clock, th>>
        ELSE LET new == [DictGet(todos_db, todo_id) EXCEPT
                            !.title       = IF todo_update.title # None THEN todo_update.title ELSE @,
                            !.description = IF todo_update.description # None
                                            THEN todo_update.description ELSE @,
                            !.completed   = IF todo_update.completed # None
                                            THEN todo_update.completed ELSE @]
             IN  /\ todos_db' = DictSet(DictDel(todos_db, todo_id), todo_id, new)
                 /\ resp' = Response("update_todo", req, HTTP_200_OK, None, <<new>>)
                 /\ UNCHANGED <<next_id, created_ids, clock, th>>

update_todo(todo_id, todo_update) ==
    LET req == [todo_id |-> todo_id, todo_update |-> todo_update]
    IN  IF ~DictHas(todos_db, todo_id)
        THEN /\ resp' = NotFound("update_todo", req, todo_id)
             /\ UNCHANGED <<todos_db, next_id, created_ids, clock, th>>
        ELSE LET i   == DictIndex(todos_db, todo_id)
                 new == apply_update(todos_db[i].val, todo_update)
             IN  /\ todos_db' = [todos_db EXCEPT ![i].val = new]
                 /\ resp' = Response("update_todo", req, HTTP_200_OK, None, <<new>>)
                 /\ UNCHANGED <<next_id, created_ids, clock, th>>

\* delete_todo that answers 204 for an id it does not hold.
delete_todo_idempotent(todo_id) ==
    /\ todos_db' = DictDel(todos_db, todo_id)
    /\ resp' = Response("delete_todo", [todo_id |-> todo_id], HTTP_204_NO_CONTENT, None, <<>>)
    /\ UNCHANGED <<next_id, created_ids, clock, th>>

\* delete_todo that clears the dict instead of deleting one key.
delete_todo_clear(todo_id) ==
    LET req == [todo_id |-> todo_id]
    IN  IF ~DictHas(todos_db, todo_id)
        THEN /\ resp' = NotFound("delete_todo", req, todo_id)
             /\ UNCHANGED <<todos_db, next_id, created_ids, clock, th>>
        ELSE /\ todos_db' = <<>>
             /\ resp' = Response("delete_todo", req, HTTP_204_NO_CONTENT, None, <<>>)
             /\ UNCHANGED <<next_id, created_ids, clock, th>>

\* delete_todo that hands the newest id back to the counter.
delete_todo_reclaim_id(todo_id) ==
    LET req == [todo_id |-> todo_id]
    IN  IF ~DictHas(todos_db, todo_id)
        THEN /\ resp' = NotFound("delete_todo", req, todo_id)
             /\ UNCHANGED <<todos_db, next_id, created_ids, clock, th>>
        ELSE /\ todos_db' = DictDel(todos_db, todo_id)
             /\ next_id' = IF todo_id = next_id - 1 THEN todo_id ELSE next_id
             /\ resp' = Response("delete_todo", req, HTTP_204_NO_CONTENT, None, <<>>)
             /\ UNCHANGED <<created_ids, clock, th>>

delete_todo(todo_id) ==
    LET req == [todo_id |-> todo_id]
    IN  IF ~DictHas(todos_db, todo_id)
        THEN /\ resp' = NotFound("delete_todo", req, todo_id)
             /\ UNCHANGED <<todos_db, next_id, created_ids, clock, th>>
        ELSE /\ todos_db' = DictDel(todos_db, todo_id)
             /\ resp' = Response("delete_todo", req, HTTP_204_NO_CONTENT, None, <<>>)
             /\ UNCHANGED <<next_id, created_ids, clock, th>>

get_stats ==
    LET total     == Len(todos_db)
        completed == Len(SelectSeq(DictValues(todos_db), LAMBDA todo : todo.completed = Some(TRUE)))
        pending   == total - completed
    IN  /\ resp' = Response("get_stats", <<>>, HTTP_200_OK, None,
                            <<[total_todos |-> total, completed |-> completed,
                               pending |-> pending,
                               completion_percentage |->
                                   completion_percentage(completed, total)]>>)
        /\ UNCHANGED <<todos_db, next_id, created_ids, clock, th>>

\* delete_all_todos that also starts the ids again at 1.
delete_all_todos_reset ==
    /\ todos_db' = <<>>
    /\ next_id' = 1
    /\ resp' = Response("delete_all_todos", <<>>, HTTP_204_NO_CONTENT, None, <<>>)
    /\ UNCHANGED <<created_ids, clock, th>>

delete_all_todos ==
    /\ todos_db' = <<>>
    /\ resp' = Response("delete_all_todos", <<>>, HTTP_204_NO_CONTENT, None, <<>>)
    /\ UNCHANGED <<next_id, created_ids, clock, th>>

(* --------------------------- specification ---------------------------- *)
Next ==
    \/ \E todo \in TodoCreates : create_todo(todo)
    \/ \E skip \in 0..MaxPage, limit \in 0..MaxPage,
          completed \in {None, Some(TRUE), Some(FALSE)} : read_todos(skip, limit, completed)
    \/ \E todo_id \in Ids : read_todo(todo_id)
    \/ \E todo_id \in Ids, todo_update \in TodoUpdates : update_todo(todo_id, todo_update)
    \/ \E todo_id \in Ids : delete_todo(todo_id)
    \/ get_stats
    \/ delete_all_todos

Spec == Init /\ [][Next]_vars

(* ----------------- create_todo on concurrent threads ------------------ *)
\* Thread t runs create_todo statement by statement; the other threads may
\* run between any two of its steps. No lock guards todos_db or next_id.
Local(t, pc, todo, current_id, tmp, ret) ==
    [th EXCEPT ![t] = [pc |-> pc, todo |-> todo, current_id |-> current_id,
                       tmp |-> tmp, ret |-> ret]]

\* The runtime dispatches a POST /todos request to the idle thread t.
create_call(t, todo) ==
    /\ th[t].pc = "idle"
    /\ Len(created_ids) + Cardinality({u \in Threads : th[u].pc # "idle"}) < MaxId
    /\ th' = Local(t, "read", Some(todo), 0, 0, th[t].ret)
    /\ UNCHANGED <<todos_db, next_id, resp, created_ids, clock>>

\* get_next_id: current_id = next_id
create_read(t) ==
    /\ th[t].pc = "read"
    /\ th' = Local(t, "load", th[t].todo, next_id, 0, th[t].ret)
    /\ UNCHANGED <<todos_db, next_id, resp, created_ids, clock>>

\* get_next_id: next_id += 1, the load of next_id
create_load(t) ==
    /\ th[t].pc = "load"
    /\ th' = Local(t, "store", th[t].todo, th[t].current_id, next_id, th[t].ret)
    /\ UNCHANGED <<todos_db, next_id, resp, created_ids, clock>>

\* get_next_id: next_id += 1, the store of the sum
create_store(t) ==
    /\ th[t].pc = "store"
    /\ next_id' = th[t].tmp + 1
    /\ th' = Local(t, "insert", th[t].todo, th[t].current_id, 0, th[t].ret)
    /\ UNCHANGED <<todos_db, resp, created_ids, clock>>

\* create_todo: build todo_data, todos_db[todo_id] = todo_data, return it
create_insert(t) ==
    LET now  == datetime_now(clock)
        data == todo_data(th[t].current_id, th[t].todo[1], now.now)
    IN  /\ th[t].pc = "insert"
        /\ clock' = now.clock
        /\ todos_db' = DictSet(todos_db, th[t].current_id, data)
        /\ created_ids' = Append(created_ids, data.id)
        /\ th' = Local(t, "idle", None, 0, 0, Some(data))
        /\ UNCHANGED <<next_id, resp>>

NextConc ==
    \/ \E t \in Threads, todo \in TitleOnlyCreates : create_call(t, todo)
    \/ \E t \in Threads : create_read(t)
    \/ \E t \in Threads : create_load(t)
    \/ \E t \in Threads : create_store(t)
    \/ \E t \in Threads : create_insert(t)

SpecConc == Init /\ [][NextConc]_vars

(* ------------------------ get_stats on any store ---------------------- *)
RECURSIVE Ascending(_)
\* The elements of a set of numbers in increasing order.
Ascending(S) ==
    IF S = {} THEN <<>>
    ELSE LET m == CHOOSE x \in S : \A y \in S : x <= y
         IN  <<m>> \o Ascending(S \ {m})

\* The stores left by MaxStored creates, which gave each record its completed
\* flag, followed by deletes of the records outside kept.
StoreAfter(kept, flag) ==
    LET ids == Ascending(kept)
    IN  [i \in 1..Len(ids) |->
            [key |-> ids[i],
             val |-> todo_data(ids[i],
                               [title |-> Some("a"), description |-> None,
                                completed |-> Some(flag[ids[i]])],
                               ids[i])]]

InitStats ==
    /\ \E kept \in SUBSET (1..MaxStored), flag \in [1..MaxStored -> BOOLEAN] :
          todos_db = StoreAfter(kept, [i \in 1..MaxStored |-> i \in kept /\ flag[i]])
    /\ next_id = MaxStored + 1
    /\ resp = Response("start", <<>>, 0, None, <<>>)
    /\ created_ids = [i \in 1..MaxStored |-> i]
    /\ clock = MaxStored + 1
    /\ th = [t \in Threads |-> Idle]

NextStats == get_stats

SpecStats == InitStats /\ [][NextStats]_vars

(* ------------- read_todos with any skip and limit on any store -------- *)
\* skip and limit are plain ints: the query accepts negative values.
NextList ==
    \E skip \in -MaxPage..MaxPage, limit \in -MaxPage..MaxPage,
       completed \in {None, Some(TRUE), Some(FALSE)} : read_todos(skip, limit, completed)

SpecList == InitStats /\ [][NextList]_vars

(* ------------- read, update, delete on concurrent threads ------------- *)
\* Thread t runs read_todo, update_todo or delete_todo in two steps, the
\* membership test and the access to todos_db[todo_id]; the other threads
\* may run in between. An exception no handler catches is the outcome
\* "KeyError".
ByIdIdle == [pc |-> "idle", op |-> "none", todo_id |-> 0, todo_update |-> None,
             outcome |-> "none"]

\* The store after MaxId creates, no thread running.
InitRace ==
    /\ todos_db = [i \in 1..MaxId |->
                      [key |-> i,
                       val |-> todo_data(i, TodoCreate([f \in {"title"} |-> Some("a")]), i)]]
    /\ next_id = MaxId + 1
    /\ resp = Response("start", <<>>, 0, None, <<>>)
    /\ created_ids = [i \in 1..MaxId |-> i]
    /\ clock = MaxId + 1
    /\ th = [t \in Threads |-> ByIdIdle]

\* The update the racing PUT requests carry.
CompleteOnly == TodoUpdate([f \in {"completed"} |-> Some(TRUE)])

Finish(t, outcome) == [th EXCEPT ![t].pc = "idle", ![t].outcome = outcome]

\* The runtime dispatches a GET, PUT or DELETE /todos/{todo_id} to thread t.
by_id_call(t, op, todo_id) ==
    /\ th[t].pc = "idle"
    /\ th' = [th EXCEPT ![t] = [pc |-> "check", op |-> op, todo_id |-> todo_id,
                                todo_update |-> IF op = "update_todo"
                                                THEN Some(CompleteOnly) ELSE None,
                                outcome |-> "none"]]
    /\ UNCHANGED <<todos_db, next_id, resp, created_ids, clock>>

\* if todo_id not in todos_db: raise HTTPException(404)
by_id_check(t) ==
    /\ th[t].pc = "check"
    /\ th' = IF ~DictHas(todos_db, th[t].todo_id)
             THEN Finish(t, "NotFound")
             ELSE [th EXCEPT ![t].pc = "access"]
    /\ UNCHANGED <<todos_db, next_id, resp, created_ids, clock>>

\* read_todo: return todos_db[todo_id]
read_access(t) ==
    /\ th[t].pc = "access"
    /\ th[t].op = "read_todo"
    /\ th' = Finish(t, IF DictHas(todos_db, th[t].todo_id) THEN "success" ELSE "KeyError")
    /\ UNCHANGED <<todos_db, next_id, resp, created_ids, clock>>

\* update_todo: existing_todo = todos_db[todo_id], then the assignments
update_access(t) ==
    /\ th[t].pc = "access"
    /\ th[t].op = "update_todo"
    /\ IF DictHas(todos_db, th[t].todo_id)
       THEN LET i == DictIndex(todos_db, th[t].todo_id)
            IN  /\ todos_db' = [todos_db EXCEPT
                                   ![i].val = apply_update(@, th[t].todo_update[1])]
                /\ th' = Finish(t, "success")
       ELSE /\ th' = Finish(t, "KeyError")
            /\ UNCHANGED todos_db
    /\ UNCHANGED <<next_id, resp, created_ids, clock>>

\* delete_todo: del todos_db[todo_id]
delete_access(t) ==
    /\ th[t].pc = "access"
    /\ th[t].op = "delete_todo"
    /\ IF DictHas(todos_db, th[t].todo_id)
       THEN /\ todos_db' = DictDel(todos_db, th[t].todo_id)
            /\ th' = Finish(t, "success")
       ELSE /\ th' = Finish(t, "KeyError")
            /\ UNCHANGED todos_db
    /\ UNCHANGED <<next_id, resp, created_ids, clock>>

\* delete_all_todos on thread t: todos_db.clear() is a single step
delete_all_run(t) ==
    /\ th[t].pc = "idle"
    /\ todos_db' = <<>>
    /\ th' = [th EXCEPT ![t] = [pc |-> "idle", op |-> "delete_all_todos", todo_id |-> 0,
                                todo_update |-> None, outcome |-> "success"]]
    /\ UNCHANGED <<next_id, resp, created_ids, clock>>

NextRace ==
    \/ \E t \in Threads, op \in {"read_todo", "update_todo", "delete_todo"}, todo_id \in Ids :
          by_id_call(t, op, todo_id)
    \/ \E t \in Threads : by_id_check(t)
    \/ \E t \in Threads : read_access(t)
    \/ \E t \in Threads : update_access(t)
    \/ \E t \in Threads : delete_access(t)
    \/ \E t \in Threads : delete_all_run(t)

SpecRace == InitRace /\ [][NextRace]_vars

(* ----------------- get_stats beside concurrent writers ----------------- *)
\* Thread t runs get_stats in two steps, total = len(todos_db) and the sum
\* over todos_db.values(); create_todo, update_todo, delete_todo and
\* delete_all_todos requests may run in between.
StatsIdle == [pc |-> "idle", total |-> 0, ret |-> None]

InitStatsRace ==
    /\ todos_db = <<>>
    /\ next_id = 1
    /\ resp = Response("start", <<>>, 0, None, <<>>)
    /\ created_ids = <<>>
    /\ clock = 1
    /\ th = [t \in Threads |-> StatsIdle]

\* The bodies the racing POST requests carry.
RacingCreates == {todo \in TodoCreates : todo.title = Some("a") /\ todo.description = None}

stats_call(t) ==
    /\ th[t].pc = "idle"
    /\ th' = [th EXCEPT ![t] = [pc |-> "len", total |-> 0, ret |-> None]]
    /\ UNCHANGED <<todos_db, next_id, resp, created_ids, clock>>

\* total = len(todos_db)
stats_len(t) ==
    /\ th[t].pc = "len"
    /\ th' = [th EXCEPT ![t].pc = "sum", ![t].total = Len(todos_db)]
    /\ UNCHANGED <<todos_db, next_id, resp, created_ids, clock>>

\* completed = sum(1 for todo in todos_db.values() if todo["completed"])
\* and the returned dict
stats_sum(t) ==
    /\ th[t].pc = "sum"
    /\ LET total     == th[t].total
           completed == Len(SelectSeq(DictValues(todos_db),
                                      LAMBDA todo : todo.completed = Some(TRUE)))
           pending   == total - completed
       IN  th' = [th EXCEPT ![t].pc = "idle",
                            ![t].ret = Some([total_todos |-> total,
                                             completed |-> completed,
                                             pending |-> pending,
                                             completion_percentage |->
                                                 completion_percentage(completed, total)])]
    /\ UNCHANGED <<todos_db, next_id, resp, created_ids, clock>>

NextStatsRace ==
    \/ \E t \in Threads : stats_call(t)
    \/ \E t \in Threads : stats_len(t)
    \/ \E t \in Threads : stats_sum(t)
    \/ \E todo \in RacingCreates : create_todo(todo)
    \/ \E todo_id \in Ids : update_todo(todo_id, CompleteOnly)
    \/ \E todo_id \in Ids : delete_todo(todo_id)
    \/ delete_all_todos

SpecStatsRace == InitStatsRace /\ [][NextStatsRace]_vars

(* ------------------------------ properties ---------------------------- *)
\* A step of Spec in which the handler op ran.
Handled(op) == resp'.op = op /\ vars' # vars

NoRepeat(seq) == \A i, j \in 1..Len(seq) : i # j => seq[i] # seq[j]

\* C1: from the fresh store the k-th create_todo returns id k, so the ids
\* returned are unique, increasing and start at 1, and the counter is one
\* more than the number of creates.
C1_KthCreateReturnsK ==
    /\ \A k \in 1..Len(created_ids) : created_ids[k] = k
    /\ next_id = Len(created_ids) + 1

\* Two creates have returned, the second one last.
C1_Witness ==
    /\ resp.op = "create_todo"
    /\ Len(created_ids) >= 2
    /\ resp.body[1].id = Len(created_ids)

\* C2: over any sequence of handlers the counter never decreases, every id
\* in the store is smaller than the counter, and no id is returned by two
\* creates, also after a delete or a deleteAll removed it.
C2_IdsNeverReused ==
    /\ [](/\ \A k \in DictKeys(todos_db) : k < next_id
          /\ NoRepeat(created_ids))
    /\ [][next_id' >= next_id]_vars

\* A create returned id 2 after id 1 had been removed from the store.
C2_Witness ==
    /\ resp.op = "create_todo"
    /\ resp.body[1].id = 2
    /\ created_ids = <<1, 2>>
    /\ ~DictHas(todos_db, 1)

\* C3: when create_todo handlers interleave, no two of them return the same
\* id.
C3_ConcurrentIdsDistinct == NoRepeat(created_ids)

ByIdOps == {"read_todo", "update_todo", "delete_todo"}

\* C4: read_todo, update_todo and delete_todo on an id the store does not
\* hold answer 404 with a detail naming that id, and leave the store, its
\* records and the counter as they were.
C4_AbsentIdNotFound ==
    [][\A id \in Ids, op \in ByIdOps :
          (Handled(op) /\ resp'.req.todo_id = id /\ ~DictHas(todos_db, id))
          => /\ resp'.status = 404
             /\ resp'.detail = <<"TODO with id", id, "not found">>
             /\ resp'.body = <<>>
             /\ todos_db' = todos_db
             /\ next_id' = next_id]_vars

\* delete_todo was refused for an id absent from a store that holds a record.
C4_Witness ==
    /\ resp.op = "delete_todo"
    /\ resp.status = 404
    /\ ~DictHas(todos_db, resp.req.todo_id)
    /\ Len(todos_db) >= 1

\* The value a field has after an update that carries requested for it.
Updated(requested, old) == IF requested # None THEN requested ELSE old

\* C5: update_todo on an id in the store overwrites the fields among title,
\* description and completed that the request gives a non-null value,
\* leaves the other fields, the other records, the order of the records and
\* the counter as they were, and returns the record as it is stored.
C5_UpdateOverwritesGivenFields ==
    [][\A id \in Ids :
          (Handled("update_todo") /\ resp'.req.todo_id = id /\ DictHas(todos_db, id))
          => LET u   == resp'.req.todo_update
                 i   == DictIndex(todos_db, id)
                 old == todos_db[i].val
             IN  /\ Len(todos_db') = Len(todos_db)
                 /\ \A j \in 1..Len(todos_db) : j # i => todos_db'[j] = todos_db[j]
                 /\ todos_db'[i].key = id
                 /\ todos_db'[i].val =
                       [id          |-> old.id,
                        title       |-> Updated(u.title, old.title),
                        description |-> Updated(u.description, old.description),
                        completed   |-> Updated(u.completed, old.completed),
                        created_at  |-> old.created_at]
                 /\ next_id' = next_id
                 /\ resp'.status = 200
                 /\ resp'.body = <<todos_db'[i].val>>]_vars

\* An update carrying only completed = true was applied to a record with a
\* description, next to a second record.
C5_Witness ==
    /\ resp.op = "update_todo"
    /\ resp.status = 200
    /\ resp.req.todo_update = [title |-> None, description |-> None, completed |-> Some(TRUE)]
    /\ resp.body[1].completed = Some(TRUE)
    /\ resp.body[1].description # None
    /\ Len(todos_db) = 2

\* C6: the id and created_at a record got from create_todo are not changed
\* by any later handler: they stay the same while the record is in the
\* store, and every record returned by read_todo, read_todos or update_todo
\* carries the id and created_at stored under its key.
C6_IdAndCreatedAtFixed ==
    [][/\ \A k \in Ids :
             (DictHas(todos_db, k) /\ DictHas(todos_db', k))
             => /\ DictGet(todos_db', k).id = DictGet(todos_db, k).id
                /\ DictGet(todos_db', k).created_at = DictGet(todos_db, k).created_at
       /\ Handled("create_todo")
             => /\ DictHas(todos_db', resp'.body[1].id)
                /\ DictGet(todos_db', resp'.body[1].id) = resp'.body[1]
       /\ resp'.op \in {"read_todo", "read_todos", "update_todo"}
             => \A n \in 1..Len(resp'.body) :
                   /\ DictHas(todos_db', resp'.body[n].id)
                   /\ DictGet(todos_db', resp'.body[n].id).id = resp'.body[n].id
                   /\ DictGet(todos_db', resp'.body[n].id).created_at
                         = resp'.body[n].created_at]_vars

\* The second record created had its title changed and kept its id and its
\* created_at, which differs from the first record's.
C6_Witness ==
    /\ resp.op = "update_todo"
    /\ resp.status = 200
    /\ resp.req.todo_update.title # None
    /\ resp.body[1].id = 2
    /\ resp.body[1].created_at = 2
    /\ DictHas(todos_db, 1)
    /\ DictGet(todos_db, 1).created_at = 1

\* The id was returned by a create and is no longer in the store.
Removed(id) ==
    /\ \E k \in 1..Len(created_ids) : created_ids[k] = id
    /\ ~DictHas(todos_db, id)

\* C7: a successful delete_todo removes the entry of its id and nothing
\* else, and leaves the counter as it was; an id that has been removed stays
\* out of the store, and read_todo, update_todo and delete_todo on it answer
\* 404, whatever handlers run afterwards.
C7_DeleteRemovesForGood ==
    [][/\ \A id \in Ids :
             (Handled("delete_todo") /\ resp'.req.todo_id = id /\ DictHas(todos_db, id))
             => /\ resp'.status = 204
                /\ todos_db' = SelectSeq(todos_db, LAMBDA e : e.key # id)
                /\ Len(todos_db') = Len(todos_db) - 1
                /\ next_id' = next_id
       /\ \A id \in Ids : Removed(id) => Removed(id)'
       /\ \A id \in Ids, op \in ByIdOps :
             (Removed(id) /\ Handled(op) /\ resp'.req.todo_id = id)
             => resp'.status = 404]_vars

\* delete_todo removed record 1 and left record 2 in the store.
C7_Witness ==
    /\ resp.op = "delete_todo"
    /\ resp.status = 204
    /\ resp.req.todo_id = 1
    /\ Removed(1)
    /\ DictKeys(todos_db) = {2}

\* C8: delete_all_todos can always run and answers 204; it leaves the store
\* empty and the counter as it was, so a read_todos on the emptied store
\* returns nothing for any skip, limit and filter, and the next create_todo
\* returns the counter's value, not 1.
C8_DeleteAllKeepsCounter ==
    /\ [](ENABLED delete_all_todos)
    /\ [][/\ Handled("delete_all_todos")
                => /\ resp'.status = 204
                   /\ todos_db' = <<>>
                   /\ next_id' = next_id
          /\ resp'.op = "delete_all_todos" => todos_db' = <<>>
          /\ (Handled("read_todos") /\ todos_db = <<>>) => resp'.body = <<>>
          /\ Handled("create_todo")
                => /\ resp'.body[1].id = next_id
                   /\ resp'.body[1].id = Len(created_ids) + 1]_vars

\* delete_all_todos emptied the store after two creates.
C8_Witness ==
    /\ resp.op = "delete_all_todos"
    /\ resp.status = 204
    /\ todos_db = <<>>
    /\ next_id = 3

Min(a, b) == IF a < b THEN a ELSE b
Max(a, b) == IF a > b THEN a ELSE b

\* The stored records in insertion order that pass the filter.
Filtered(completed) ==
    SelectSeq([i \in 1..Len(todos_db) |-> todos_db[i].val],
              LAMBDA todo : completed = None \/ todo.completed = completed)

\* C9: for skip >= 0 and limit >= 0, read_todos returns the elements at
\* 0-based positions skip .. skip+limit-1 of the stored records, in
\* insertion order, that pass the filter: the filter comes before the
\* pagination, at most limit records are returned, and none when skip is at
\* least the number of filtered records.
C9_FilterThenPage ==
    (resp.op = "read_todos" /\ resp.req.skip >= 0 /\ resp.req.limit >= 0)
    => LET f == Filtered(resp.req.completed)
           n == Max(0, Min(resp.req.limit, Len(f) - resp.req.skip))
       IN  /\ resp.body = [i \in 1..n |-> f[resp.req.skip + i]]
           /\ Len(resp.body) <= resp.req.limit
           /\ resp.req.skip >= Len(f) => resp.body = <<>>

\* A filtered page of one record returned the second record stored, the first
\* one not passing the filter.
C9_Witness ==
    /\ resp.op = "read_todos"
    /\ resp.req = [skip |-> 0, limit |-> 1, completed |-> Some(TRUE)]
    /\ Len(todos_db) = 2
    /\ todos_db[1].val.completed = Some(FALSE)
    /\ resp.body = <<todos_db[2].val>>

RECURSIVE Strip(_)
Strip(a) == IF a = <<>> \/ a[Len(a)] = 1 THEN a ELSE Strip(SubSeq(a, 1, Len(a) - 1))

RECURSIVE SubBorrow(_, _, _)
SubBorrow(a, b, borrow) ==
    IF a = <<>> THEN <<>>
    ELSE LET v == Head(a) - (IF b = <<>> THEN 0 ELSE Head(b)) - borrow
         IN  <<(v + 2) % 2>> \o
             SubBorrow(Tail(a), IF b = <<>> THEN <<>> ELSE Tail(b), IF v < 0 THEN 1 ELSE 0)

LessEq(a, b) ==
    \/ Len(a) < Len(b)
    \/ /\ Len(a) = Len(b)
       /\ \/ a = b
          \/ LET i == CHOOSE n \in 1..Len(a) :
                         a[n] # b[n] /\ \A k \in (n + 1)..Len(a) : a[k] = b[k]
             IN  a[i] < b[i]

\* |a - b|
AbsDiff(a, b) == IF LessEq(b, a) THEN Strip(SubBorrow(a, b, 0)) ELSE Strip(SubBorrow(b, a, 0))

\* x * n and k, brought to the same power of two, for a float x.
ScaledProduct(x, n) == ShiftLeft(MulSmall(x.m, n), IF x.e > 0 THEN x.e ELSE 0)
ScaledInt(x, k) == ShiftLeft(BitsOf(k), IF x.e < 0 THEN 0 - x.e ELSE 0)

\* The counts get_stats returned are those of the store.
StatsCounts(b) ==
    /\ b.total_todos = Len(todos_db)
    /\ b.completed = Cardinality({i \in 1..Len(todos_db) : todos_db[i].val.completed = Some(TRUE)})
    /\ b.pending = b.total_todos - b.completed
    /\ b.completed + b.pending = b.total_todos
    /\ 0 <= b.completed /\ b.completed <= b.total_todos
    /\ b.total_todos = 0 => b.completion_percentage.m = <<>>

\* C11 as stated: get_stats returns the counts of the store, and a
\* percentage that is 0 for an empty store and otherwise satisfies
\* percentage * total = completed * 100.
C11_PercentageExact ==
    resp.op = "get_stats"
    => LET b == resp.body[1]
       IN  /\ StatsCounts(b)
           /\ b.total_todos > 0
                 => ScaledProduct(b.completion_percentage, b.total_todos)
                       = ScaledInt(b.completion_percentage, b.completed * 100)

\* The bound on two roundings to MantissaBits digits: 2^-51 of the value.
RoundingShift == MantissaBits - 2

\* C11, amended: get_stats returns the counts of the store, and a percentage
\* that is 0 for an empty store, 50 for 1 completed of 2, and otherwise the
\* float result of completed / total * 100, for which percentage * total
\* differs from completed * 100 by at most completed * 100 * 2^-51.
C11_PercentageRounded ==
    resp.op = "get_stats"
    => LET b == resp.body[1]
           p == ScaledProduct(b.completion_percentage, b.total_todos)
           e == ScaledInt(b.completion_percentage, b.completed * 100)
       IN  /\ StatsCounts(b)
           /\ b.total_todos > 0 => LessEq(ShiftLeft(AbsDiff(p, e), RoundingShift), e)
           /\ (b.total_todos = 2 /\ b.completed = 1)
                 => b.completion_percentage.m
                       = Strip(ScaledInt(b.completion_percentage, 50))

\* get_stats ran on a store of three records, one of them completed.
C11_Witness ==
    /\ resp.op = "get_stats"
    /\ resp.body[1].total_todos = 3
    /\ resp.body[1].completed = 1
    /\ resp.body[1].pending = 2

\* C12: create_todo always succeeds and appends exactly one entry, leaving
\* the entries stored before as they were; the record it returns is the one
\* stored, with the request's title, its description (None when the body
\* omits it), its completed (False when the body omits it) and a created_at;
\* read_todo returns the stored record, which only update_todo,
\* delete_todo and delete_all_todos change or remove.
C12_CreateThenGet ==
    /\ [](\A todo \in TodoCreates : Len(created_ids) < MaxId => ENABLED create_todo(todo))
    /\ [][/\ Handled("create_todo")
                => LET r == resp'.body[1]
                   IN  /\ resp'.status = 201
                       /\ Len(todos_db') = Len(todos_db) + 1
                       /\ SubSeq(todos_db', 1, Len(todos_db)) = todos_db
                       /\ ~DictHas(todos_db, r.id)
                       /\ todos_db'[Len(todos_db')] = [key |-> r.id, val |-> r]
                       /\ r.created_at \in Nat
                       /\ \E body \in CreateBodies : create_todo(TodoCreate(body))
                       /\ \A body \in CreateBodies :
                             create_todo(TodoCreate(body))
                             => /\ r.title = body["title"]
                                /\ r.description = IF "description" \in DOMAIN body
                                                   THEN body["description"] ELSE None
                                /\ r.completed = IF "completed" \in DOMAIN body
                                                 THEN body["completed"] ELSE Some(FALSE)
          /\ \A id \in Ids :
                (Handled("read_todo") /\ resp'.req.todo_id = id /\ DictHas(todos_db, id))
                => /\ resp'.status = 200
                   /\ resp'.body = <<DictGet(todos_db, id)>>
          /\ \A id \in Ids :
                (/\ DictHas(todos_db, id)
                 /\ \/ ~DictHas(todos_db', id)
                    \/ DictGet(todos_db', id) # DictGet(todos_db, id))
                => resp'.op \in {"update_todo", "delete_todo", "delete_all_todos"}]_vars

\* read_todo returned the second record, created from a body with a title
\* only, next to the first one.
C12_Witness ==
    /\ resp.op = "read_todo"
    /\ resp.status = 200
    /\ resp.req.todo_id = 2
    /\ resp.body[1] = [id |-> 2, title |-> Some("b"), description |-> None,
                       completed |-> Some(FALSE), created_at |-> 2]
    /\ DictHas(todos_db, 1)

\* C13: every key of the store maps to exactly one record, and the id field
\* of that record is the key.
C13_KeyIsRecordId ==
    /\ \A i \in 1..Len(todos_db) : todos_db[i].val.id = todos_db[i].key
    /\ \A i, j \in 1..Len(todos_db) : todos_db[i].key = todos_db[j].key => i = j

\* Two records are stored and the second one has been updated.
C13_Witness ==
    /\ Len(todos_db) = 2
    /\ resp.op = "update_todo"
    /\ resp.status = 200
    /\ resp.req.todo_id = 2

\* C14: every stored record has a title: create_todo gets one from every
\* request, and an update_todo whose title is None leaves the stored title
\* as it was.
C14_TitleNeverNull ==
    /\ [](/\ \A todo \in TodoCreates : todo.title # None
          /\ \A i \in 1..Len(todos_db) :
                todos_db[i].val.title \in {Some(t) : t \in Titles})
    /\ [][\A id \in Ids :
             (/\ Handled("update_todo")
              /\ resp'.req.todo_id = id
              /\ DictHas(todos_db, id)
              /\ resp'.req.todo_update.title = None)
             => /\ DictHas(todos_db', id)
                /\ DictGet(todos_db', id).title = DictGet(todos_db, id).title]_vars

\* An update without a title was applied to a record titled "b".
C14_Witness ==
    /\ resp.op = "update_todo"
    /\ resp.status = 200
    /\ resp.req.todo_update.title = None
    /\ resp.req.todo_update.completed = Some(TRUE)
    /\ DictGet(todos_db, resp.req.todo_id).title = Some("b")

ReadOps == {"read_todo", "read_todos", "get_stats"}

\* C15: read_todo, read_todos and get_stats, failing or not, leave the store,
\* its records and the counter as they were, so a read repeated right after
\* itself returns the same response.
C15_ReadsHaveNoEffect ==
    [][/\ \A op \in ReadOps :
             Handled(op) => /\ todos_db' = todos_db
                            /\ next_id' = next_id
                            /\ created_ids' = created_ids
       /\ (resp'.op \in ReadOps /\ resp.op = resp'.op /\ resp.req = resp'.req)
             => resp' = resp]_vars

\* read_todo returned the first of two stored records.
C15_Witness ==
    /\ resp.op = "read_todo"
    /\ resp.status = 200
    /\ resp.req.todo_id = 1
    /\ Len(todos_db) = 2

\* C16: when read_todo, update_todo or delete_todo races with a delete_todo
\* or delete_all_todos that removes its id, it still ends in success or in
\* NotFound, never in another error.
C16_RaceEndsInSuccessOrNotFound ==
    \A t \in Threads : th[t].outcome \in {"none", "success", "NotFound"}

\* C17: the counts a get_stats call returns beside concurrent writes are
\* those of one store state: 0 <= completed <= total and pending >= 0.
C17_StatsSnapshot ==
    \A t \in Threads :
        th[t].ret # None =>
            LET stats == th[t].ret[1]
            IN  /\ 0 <= stats.completed
                /\ stats.completed <= stats.total_todos
                /\ stats.pending >= 0

\* C18: for every integer skip and limit, read_todos does not fail and
\* returns what it returns for max(skip, 0) and max(limit, 0): a negative
\* skip acts as 0 and a negative limit gives an empty result.
C18_NegativesClamp ==
    resp.op = "read_todos"
    => LET f     == Filtered(resp.req.completed)
           from  == Max(resp.req.skip, 0)
           count == Max(resp.req.limit, 0)
           n     == Max(0, Min(count, Len(f) - from))
       IN  /\ resp.status = HTTP_200_OK
           /\ resp.body = [i \in 1..n |-> f[from + i]]

\* C18 as the code has it: read_todos does not fail and returns the filtered
\* records between the bounds skip and skip + limit, where a bound i >= 0
\* stands for min(i, n) and a bound i < 0 for max(i + n, 0), n being the
\* number of filtered records; for skip >= 0 and limit >= 0 that is the
\* result for max(skip, 0) and max(limit, 0).
C18_NegativesCountFromEnd ==
    resp.op = "read_todos"
    => LET f     == Filtered(resp.req.completed)
           n     == Len(f)
           a     == IF resp.req.skip < 0 THEN Max(resp.req.skip + n, 0)
                    ELSE Min(resp.req.skip, n)
           stop  == resp.req.skip + resp.req.limit
           b     == IF stop < 0 THEN Max(stop + n, 0) ELSE Min(stop, n)
       IN  /\ resp.status = HTTP_200_OK
           /\ resp.body = [i \in 1..Max(0, b - a) |-> f[a + i]]
           /\ (resp.req.skip >= 0 /\ resp.req.limit >= 0)
                 => resp.body = [i \in 1..Max(0, Min(resp.req.limit, n - resp.req.skip)) |->
                                    f[resp.req.skip + i]]

\* skip = 0 and limit = -1 on two stored records returned the first record,
\* not an empty result.
C18_Witness ==
    /\ resp.op = "read_todos"
    /\ resp.req = [skip |-> 0, limit |-> -1, completed |-> None]
    /\ Len(todos_db) = 2
    /\ resp.body = <<todos_db[1].val>>

\* The request body without its description field.
WithoutDescription(body) == [f \in DOMAIN body \ {"description"} |-> body[f]]

\* C19: a stored description that is not None stays not None for as long as
\* its record is stored, and only delete_todo and delete_all_todos end that:
\* an update_todo request whose description is null is the request without
\* the field, and leaves the stored description as it was.
C19_DescriptionNeverBackToNull ==
    /\ [](\A body \in UpdateBodies :
             ("description" \in DOMAIN body /\ body["description"] = None)
             => TodoUpdate(body) = TodoUpdate(WithoutDescription(body)))
    /\ [][\A id \in Ids :
             (DictHas(todos_db, id) /\ DictGet(todos_db, id).description # None)
             => /\ IF DictHas(todos_db', id)
                   THEN DictGet(todos_db', id).description # None
                   ELSE \/ resp'.op = "delete_all_todos"
                        \/ resp'.op = "delete_todo" /\ resp'.req.todo_id = id
                /\ (/\ Handled("update_todo")
                    /\ resp'.req.todo_id = id
                    /\ resp'.req.todo_update.description = None)
                   => /\ DictHas(todos_db', id)
                      /\ DictGet(todos_db', id).description = DictGet(todos_db, id).description]_vars

\* An update without a description was applied to a record that has one.
C19_Witness ==
    /\ resp.op = "update_todo"
    /\ resp.status = 200
    /\ resp.req.todo_update = [title |-> Some("b"), description |-> None, completed |-> None]
    /\ DictGet(todos_db, resp.req.todo_id).description = Some("x")
    /\ DictGet(todos_db, resp.req.todo_id).title = Some("b")

====
